---- MODULE Spec2Model ----
(***************************************************************************)
(* Model of the AI agent testing backend: the evaluator and the remote     *)
(* prompt invoker of app/services/ai_service.py, the orchestrator, store   *)
(* and report generator of app/services/test_service.py, and the route     *)
(* handlers of app/routes.py that drive them.                              *)
(*                                                                         *)
(* Conventions.  A Python str that the code inspects character by          *)
(* character (a response text, an expected pattern) is a sequence of       *)
(* one-character strings.  A str that the code only compares or tests for  *)
(* truth (a credential, an identifier, a message) is a TLA+ string.        *)
(* Optional[T] is a sequence of length 0 (None) or 1 (the value).  A float *)
(* score is kept in tenths (0.8 is 8); a percentage is kept as a reduced   *)
(* fraction.  Wall-clock values (response_time, execution_time,            *)
(* created_at) take no part in any branch of the code and are left out.    *)
(***************************************************************************)
EXTENDS Integers, Sequences, FiniteSets, TLC

\* ------------------------------------------------------------------------
\* Bounds of the model
\* ------------------------------------------------------------------------
MaxLen == 3          \* longest free-form response text of the evaluator runs
MaxCases == 2        \* longest test-case list of an execution request
MaxExecutions == 2   \* execution batches accepted over one run of the service
MaxCategories == 2   \* longest category list of a suite-generation request
MaxCount == 4        \* largest cases_per_category of a suite-generation request

None == << >>
Some(x) == << x >>
IsNone(o) == Len(o) = 0
Val(o) == o[1]

\* ------------------------------------------------------------------------
\* Python str operations used by the evaluator
\* ------------------------------------------------------------------------
UpperAlpha == << "A", "B", "C", "D", "E", "F", "G", "H", "I", "J", "K", "L", "M",
                 "N", "O", "P", "Q", "R", "S", "T", "U", "V", "W", "X", "Y", "Z" >>
LowerAlpha == << "a", "b", "c", "d", "e", "f", "g", "h", "i", "j", "k", "l", "m",
                 "n", "o", "p", "q", "r", "s", "t", "u", "v", "w", "x", "y", "z" >>

\* str.lower() on one ASCII character
LowerChar(c) ==
    IF \E k \in DOMAIN UpperAlpha : UpperAlpha[k] = c
    THEN LowerAlpha[CHOOSE k \in DOMAIN UpperAlpha : UpperAlpha[k] = c]
    ELSE c

\* str.lower()
Lower(s) == [k \in 1..Len(s) |-> LowerChar(s[k])]

\* the characters str.strip() removes
Whitespace == { " ", "\t", "\n" }

RECURSIVE LStrip(_)
LStrip(s) == IF s # << >> /\ Head(s) \in Whitespace THEN LStrip(Tail(s)) ELSE s

RECURSIVE RStrip(_)
RStrip(s) ==
    IF s # << >> /\ s[Len(s)] \in Whitespace THEN RStrip(SubSeq(s, 1, Len(s) - 1)) ELSE s

\* str.strip()
Strip(s) == RStrip(LStrip(s))

\* sub in s
Contains(sub, s) ==
    \E k \in 0..(Len(s) - Len(sub)) : SubSeq(s, k + 1, k + Len(sub)) = sub

\* ------------------------------------------------------------------------
\* models.py
\* ------------------------------------------------------------------------
PASSED == "passed"
FAILED == "failed"
PENDING == "pending"
ERROR == "error"
TestStatus == { PASSED, FAILED, PENDING, ERROR }

PROMPT_UNDERSTANDING == "prompt_understanding"
RESPONSE_ACCURACY == "response_accuracy"
FALLBACK_HANDLING == "fallback_handling"
TASK_EXECUTION == "task_execution"
PERFORMANCE == "performance"
TestCategory ==
    { PROMPT_UNDERSTANDING, RESPONSE_ACCURACY, FALLBACK_HANDLING, TASK_EXECUTION, PERFORMANCE }

\* ------------------------------------------------------------------------
\* AIService._evaluate_response
\* ------------------------------------------------------------------------
fallback_indicators ==
    { << "i", " ", "d", "o", "n", "'", "t", " ", "k", "n", "o", "w" >>,
      << "i", "'", "m", " ", "n", "o", "t", " ", "s", "u", "r", "e" >>,
      << "i", " ", "c", "a", "n", "'", "t" >>,
      << "i", " ", "d", "o", "n", "'", "t", " ", "h", "a", "v", "e" >>,
      << "u", "n", "a", "b", "l", "e", " ", "t", "o" >> }

HasExpectation_not_None(test_case) == ~IsNone(test_case.expected_response)

\* if test_case.expected_response: -- None and "" are both false
HasExpectation(test_case) ==
    /\ ~IsNone(test_case.expected_response)
    /\ Val(test_case.expected_response) # << >>

Verdict(status, score, message) ==
    [status |-> status, accuracy_score |-> score, error_message |-> message]

_evaluate_response_expectation_first(test_case, actual_response) ==
    IF IsNone(actual_response)
    THEN Verdict(ERROR, Some(0), Some("Evaluation error: 'NoneType' object has no attribute 'strip'"))
    ELSE LET text == Val(actual_response) IN
         IF HasExpectation(test_case)
         THEN IF Contains(Lower(Val(test_case.expected_response)), Lower(text))
              THEN Verdict(PASSED, Some(10), None)
              ELSE Verdict(FAILED, Some(0), Some("Response doesn't match expected pattern"))
         ELSE IF Strip(text) = << >>
         THEN Verdict(FAILED, Some(0), Some("Empty response"))
         ELSE IF test_case.category = FALLBACK_HANDLING
         THEN IF \E indicator \in fallback_indicators : Contains(indicator, Lower(text))
              THEN Verdict(PASSED, Some(8), None)
              ELSE Verdict(FAILED, Some(3), Some("No fallback handling detected"))
         ELSE Verdict(PASSED, Some(7), None)

\* actual_response is Optional: the provider may return a message whose
\* content is None, and .strip() then raises inside the try block.
_evaluate_response(test_case, actual_response) ==
    IF IsNone(actual_response)
    THEN Verdict(ERROR, Some(0), Some("Evaluation error: 'NoneType' object has no attribute 'strip'"))
    ELSE LET text == Val(actual_response) IN
         IF Strip(text) = << >>
         THEN Verdict(FAILED, Some(0), Some("Empty response"))
         ELSE IF HasExpectation(test_case)
         THEN IF Contains(Lower(Val(test_case.expected_response)), Lower(text))
              THEN Verdict(PASSED, Some(10), None)
              ELSE Verdict(FAILED, Some(0), Some("Response doesn't match expected pattern"))
         ELSE IF test_case.category = FALLBACK_HANDLING
         THEN IF \E indicator \in fallback_indicators : Contains(indicator, Lower(text))
              THEN Verdict(PASSED, Some(8), None)
              ELSE Verdict(FAILED, Some(3), Some("No fallback handling detected"))
         ELSE Verdict(PASSED, Some(7), None)

\* ------------------------------------------------------------------------
\* AIService.test_prompt
\* ------------------------------------------------------------------------
\* What client.chat.completions.create does on one call: it raises
\* (transport, authentication or provider failure), or it returns a
\* response whose message content and usage may each be None.
Raised(message) == [kind |-> "raise", message |-> message, content |-> None, usage |-> None]
Returned(content, usage) == [kind |-> "ok", message |-> "", content |-> content, usage |-> usage]

\* test_case.id or "unknown"
IdOrUnknown(test_case) ==
    IF IsNone(test_case.id) \/ Val(test_case.id) = "" THEN "unknown" ELSE Val(test_case.id)

ErrorResult_without_message(model, test_case, message) ==
    [test_case_id |-> IdOrUnknown(test_case),
     actual_response |-> << >>,
     status |-> ERROR,
     accuracy_score |-> None,
     error_message |-> None,
     metadata |-> [model |-> model, category |-> test_case.category]]

\* the TestResult of the except branch
ErrorResult(model, test_case, message) ==
    [test_case_id |-> IdOrUnknown(test_case),
     actual_response |-> << >>,
     status |-> ERROR,
     accuracy_score |-> None,
     error_message |-> Some(message),
     metadata |-> [model |-> model, category |-> test_case.category]]

test_prompt_reraise(model, test_case, outcome) ==
    [raised |-> outcome.kind = "raise" \/ IsNone(outcome.content) \/ IsNone(outcome.usage),
     result |-> LET verdict == _evaluate_response(test_case, outcome.content) IN
                [test_case_id |-> IdOrUnknown(test_case),
                 actual_response |-> IF IsNone(outcome.content) THEN << >> ELSE Val(outcome.content),
                 status |-> verdict.status,
                 accuracy_score |-> verdict.accuracy_score,
                 error_message |-> verdict.error_message,
                 metadata |-> [model |-> model, category |-> test_case.category,
                               tokens_used |-> outcome.usage]]]

\* The result of one call, and whether an exception leaves test_prompt.
\* Everything from the remote call to the construction of the TestResult is
\* inside the try block: the metadata dict is built first (usage.total_tokens
\* of a None usage raises AttributeError), then pydantic validates the
\* fields (actual_response: str rejects None).
test_prompt(model, test_case, outcome) ==
    [raised |-> FALSE,
     result |->
        IF outcome.kind = "raise"
        THEN ErrorResult(model, test_case, outcome.message)
        ELSE LET verdict == _evaluate_response(test_case, outcome.content) IN
             IF IsNone(outcome.usage)
             THEN ErrorResult(model, test_case,
                              "'NoneType' object has no attribute 'total_tokens'")
             ELSE IF IsNone(outcome.content)
             THEN ErrorResult(model, test_case,
                              "1 validation error for TestResult actual_response")
             ELSE [test_case_id |-> IdOrUnknown(test_case),
                   actual_response |-> Val(outcome.content),
                   status |-> verdict.status,
                   accuracy_score |-> verdict.accuracy_score,
                   error_message |-> verdict.error_message,
                   metadata |-> [model |-> model, category |-> test_case.category,
                                 tokens_used |-> outcome.usage]]]

\* ------------------------------------------------------------------------
\* The mock TestResult of execute_test_suite and run_quick_test
\* ------------------------------------------------------------------------
MOCK_RESPONSE ==
    << "T", "h", "i", "s", " ", "i", "s", " ", "a", " ", "m", "o", "c", "k",
       " ", "r", "e", "s", "p", "o", "n", "s", "e", " ", "f", "o", "r", " ",
       "t", "e", "s", "t", "i", "n", "g", " ", "p", "u", "r", "p", "o", "s",
       "e", "s", ".", " ", "P", "l", "e", "a", "s", "e", " ", "c", "o", "n",
       "f", "i", "g", "u", "r", "e", " ", "y", "o", "u", "r", " ", "A", "P",
       "I", " ", "k", "e", "y", " ", "i", "n", " ", "s", "e", "t", "t", "i",
       "n", "g", "s", "." >>

MockResult(test_case_id, model, test_case) ==
    [test_case_id |-> test_case_id,
     actual_response |-> MOCK_RESPONSE,
     status |-> PASSED,
     accuracy_score |-> Some(10),
     error_message |-> None,
     metadata |-> [model |-> model, category |-> test_case.category, mock |-> TRUE]]

\* ------------------------------------------------------------------------
\* State of the service
\* ------------------------------------------------------------------------
VARIABLES
    settings,     \* config.settings: the process-wide credentials
    executions,   \* TestService.executions: execution_id -> TestExecutionResponse
    batches,      \* number of execute_test_suite calls started so far
    task,         \* the execute_test_suite coroutines in flight, one per slot
    reply,        \* the HTTP response of the handler that completed last
    ev            \* the evaluator under direct call (SpecEval)

vars == << settings, executions, batches, task, reply, ev >>

\* the request handlers the event loop can hold suspended at one time
Tasks == { 1, 2 }

UuidStr_shared_by_batches(b, k) == "uuid-" \o ToString(k)

\* str(uuid.uuid4()): a value no other call returns.  The call made by batch
\* b for its k-th case (k = 0: for its execution_id) is named after b and k.
UuidStr(b, k) == "uuid-" \o ToString(b) \o "-" \o ToString(k)

Idle == [op |-> "idle"]
NoReply == [route |-> "none", status |-> 0]
EvOff == [stage |-> "off"]

DEFAULT_MODEL == "gpt-3.5-turbo"
QUICK_MODEL == "qwen/qwen-2.5-72b-instruct:free"

\* ------------------------------------------------------------------------
\* Inputs
\* ------------------------------------------------------------------------
TestCaseOf(id, prompt, expected, category) ==
    [id |-> id, prompt |-> prompt, expected_response |-> expected, category |-> category]

CaseNoId ==
    TestCaseOf(None, "What is the meaning of life?", None, FALLBACK_HANDLING)
CaseWithId ==
    TestCaseOf(Some("case-1"), "What is 2+2?", Some(<< "4" >>), RESPONSE_ACCURACY)
MainCases == { CaseNoId, CaseWithId }

RECURSIVE SeqsUpTo(_, _)
SeqsUpTo(S, n) ==
    IF n = 0 THEN { << >> }
    ELSE LET shorter == SeqsUpTo(S, n - 1) IN
         shorter \cup { Append(s, x) : s \in shorter, x \in S }

\* the requests that pass the checks of the route: a credential (the
\* placeholder or a real one) and every list of 1..MaxCases cases
ExecutionRequests ==
    [api_key : { "dummy_key", "sk-user" },
     model : { DEFAULT_MODEL },
     test_cases : SeqsUpTo(MainCases, MaxCases) \ { << >> }]

\* the requests of the runs that serve every route: with and without a
\* credential, with and without cases
ServiceRequests ==
    [api_key : { "", "dummy_key", "sk-user" },
     model : { DEFAULT_MODEL },
     test_cases : { << >>, << CaseNoId >>, << CaseWithId, CaseNoId >> }]

TextFour == << "4" >>
MainOutcomes ==
    { Raised("Connection error."),
      Returned(None, Some(12)),
      Returned(Some(TextFour), Some(12)) }

\* ------------------------------------------------------------------------
\* TestService.execute_test_suite
\* ------------------------------------------------------------------------
\* settings.OPENROUTER_API_KEY or settings.OPENAI_API_KEY
ConfiguredKey(s) ==
    IF s.OPENROUTER_API_KEY # "" THEN s.OPENROUTER_API_KEY ELSE s.OPENAI_API_KEY

EffectiveKey_keeps_placeholder(request, s) ==
    IF request.api_key = "" THEN ConfiguredKey(s) ELSE request.api_key

\* lines 26-28: the credential the batch runs with ("" when there is none)
EffectiveKey(request, s) ==
    IF request.api_key = "" \/ request.api_key = "dummy_key"
    THEN ConfiguredKey(s)
    ELSE request.api_key

\* a / b * 100 as a reduced fraction << numerator, denominator >>
RECURSIVE GCD(_, _)
GCD(a, b) == IF b = 0 THEN a ELSE GCD(b, a % b)
Percent(a, b) ==
    IF a = 0 THEN << 0, 1 >>
    ELSE LET g == GCD(a * 100, b) IN << (a * 100) \div g, b \div g >>

CountStatus(results, status) ==
    Cardinality({ k \in DOMAIN results : results[k].status = status })

_get_category_breakdown(results) ==
    [c \in { results[k].metadata.category : k \in DOMAIN results } |->
        Cardinality({ k \in DOMAIN results : results[k].metadata.category = c })]

\* lines 22-33: the locals of the coroutine before the loop.  input_cases
\* (the case list as the caller sent it) and outcomes (what each remote call
\* of the batch did) are kept for the record; the code reads neither.
NewFrame(request, s, b) ==
    [op |-> "execute",
     input_cases |-> request.test_cases,
     request |-> request,
     batch |-> b,
     execution_id |-> UuidStr(b, 0),
     api_key |-> EffectiveKey(request, s),
     results |-> << >>,
     passed_tests |-> 0,
     failed_tests |-> 0,
     i |-> 0,
     outcomes |-> << >>]

AppendResult_in_front(results, result) == << result >> \o results

\* line 62: results.append(result)
AppendResult(results, result) == Append(results, result)

\* line 39: if not test_case.id
NeedsId(test_case) == IsNone(test_case.id) \/ Val(test_case.id) = ""

Tally_error_uncounted(f, result) ==
    [f EXCEPT !.passed_tests = IF result.status = PASSED THEN @ + 1 ELSE @,
              !.failed_tests = IF result.status = FAILED THEN @ + 1 ELSE @]

\* lines 64-68: update counters
Tally(f, result) ==
    [f EXCEPT !.passed_tests = IF result.status = PASSED THEN @ + 1 ELSE @,
              !.failed_tests = IF result.status = PASSED THEN @ ELSE @ + 1]

\* lines 35-68: one pass of the loop body, for the case after the f.i done
\* so far.  The pass ends at the await of asyncio.sleep, or with the
\* exception that left test_prompt.
LoopBody(f, outcome) ==
    LET k == f.i + 1
        given == f.request.test_cases[k]
        test_case == IF NeedsId(given) THEN [given EXCEPT !.id = Some(UuidStr(f.batch, k))]
                     ELSE given
        remote == f.api_key # ""
        call == test_prompt(f.request.model, test_case, outcome)
        result == IF remote THEN call.result
                  ELSE MockResult(Val(test_case.id), f.request.model, test_case)
        g == [f EXCEPT !.request.test_cases[k] = test_case,
                       !.i = k,
                       !.outcomes = IF remote THEN Append(@, outcome) ELSE @]
    IN [raised |-> remote /\ call.raised,
        frame |-> IF remote /\ call.raised THEN g
                  ELSE Tally([g EXCEPT !.results = AppendResult(@, result)], result)]

\* lines 76-89: the TestExecutionResponse
ExecutionResponse(f) ==
    [execution_id |-> f.execution_id,
     total_tests |-> Len(f.request.test_cases),
     passed_tests |-> f.passed_tests,
     failed_tests |-> f.failed_tests,
     results |-> f.results,
     summary |->
        [success_rate |-> IF f.request.test_cases # << >>
                          THEN Percent(f.passed_tests, Len(f.request.test_cases))
                          ELSE << 0, 1 >>,
         category_breakdown |-> _get_category_breakdown(f.results),
         model_used |-> f.request.model]]

\* self.executions[execution_id] = execution_response
Put_replaces_store(store, key, value) == [k \in { key } |-> value]

\* line 92: self.executions[execution_id] = response
Put(store, key, value) ==
    [k \in DOMAIN store \cup { key } |-> IF k = key THEN value ELSE store[k]]

\* ------------------------------------------------------------------------
\* TestService.generate_test_report and TestService.run_quick_test
\* ------------------------------------------------------------------------
success_rate_of_failed(execution) ==
    IF execution.total_tests > 0
    THEN Percent(execution.failed_tests, execution.total_tests)
    ELSE << 0, 1 >>

\* line 146: the success rate the report carries
success_rate(execution) ==
    IF execution.total_tests > 0
    THEN Percent(execution.passed_tests, execution.total_tests)
    ELSE << 0, 1 >>

\* lines 141-143: self.executions.get(execution_id) finds nothing
NotFound(store, execution_id) == execution_id \notin DOMAIN store

\* lines 145-170, for an execution the store holds
generate_test_report(store, execution_id) ==
    LET execution == store[execution_id] IN
    [execution_id |-> execution_id,
     test_suite_name |-> "Generated Test Suite",
     total_tests |-> execution.total_tests,
     passed_tests |-> execution.passed_tests,
     failed_tests |-> execution.failed_tests,
     success_rate |-> success_rate(execution),
     category_breakdown |-> _get_category_breakdown(execution.results),
     detailed_results |-> execution.results]

\* f"Web Page: {web_page_url}\n\nTest Prompt: {prompt}"
EnhancedPrompt(prompt, web_page_url) ==
    "Web Page: " \o web_page_url \o "\n\nTest Prompt: " \o prompt

\* The TestResult of run_quick_test and the number of remote calls it made.
run_quick_test(prompt, web_page_url, s, outcome) ==
    LET test_case == TestCaseOf(None, prompt, None, PROMPT_UNDERSTANDING)
        api_key == ConfiguredKey(s)
        enhanced == [test_case EXCEPT !.prompt = EnhancedPrompt(prompt, web_page_url)]
        call == test_prompt(QUICK_MODEL, enhanced, outcome)
    IN IF api_key = ""
       THEN [raised |-> FALSE, calls |-> 0,
             result |-> MockResult(IdOrUnknown(test_case), QUICK_MODEL, test_case)]
       ELSE [raised |-> call.raised, calls |-> 1, result |-> call.result]

\* ------------------------------------------------------------------------
\* routes.py
\* ------------------------------------------------------------------------
HTTPException(status_code, detail) == [status_code |-> status_code, detail |-> detail]

\* lines 57-61 of execute_tests: the HTTPException the checks raise, if any
execute_tests_checks_key_only(request) ==
    IF request.api_key = ""
    THEN Some(HTTPException(400, "API key is required"))
    ELSE None

execute_tests_checks(request) ==
    IF request.api_key = ""
    THEN Some(HTTPException(400, "API key is required"))
    ELSE IF request.test_cases = << >>
    THEN Some(HTTPException(400, "At least one test case is required"))
    ELSE None

\* lines 82-86 of quick_test
quick_test_checks(request) ==
    IF request.web_page_url = ""
    THEN Some(HTTPException(400, "Web page URL is required"))
    ELSE IF request.prompt = ""
    THEN Some(HTTPException(400, "Prompt is required"))
    ELSE None

\* except Exception as e: raise HTTPException(status_code=500, ...).
\* HTTPException is itself an Exception, so the clause also catches the
\* HTTPException raised inside the try block; str(e) of an HTTPException is
\* written here as "<status_code>: <detail>".
except_Exception(prefix, e) ==
    HTTPException(500, prefix \o ToString(e.status_code) \o ": " \o e.detail)

\* the same clause catching an exception that is not an HTTPException
except_Fault(prefix, message) == HTTPException(500, prefix \o message)

report_except_ValueError_as_fault(execution_id) ==
    HTTPException(500, "Failed to generate report")

\* lines 125-126 of get_execution_report: except ValueError
report_except_ValueError(execution_id) ==
    HTTPException(404, "Execution " \o execution_id \o " not found")

\* lines 73-94 of execute_test_suite, then the return of execute_tests
Complete(t, f) ==
    /\ executions' = Put(executions, f.execution_id, ExecutionResponse(f))
    /\ task' = [task EXCEPT ![t] = Idle]
    /\ reply' = [route |-> "execute-tests", request |-> f.request,
                 input_cases |-> f.input_cases, api_key |-> f.api_key,
                 status |-> 200, body |-> ExecutionResponse(f), outcomes |-> f.outcomes]

\* an exception leaves execute_test_suite and reaches the except clause
Abort(t, f, message) ==
    /\ task' = [task EXCEPT ![t] = Idle]
    /\ reply' = [route |-> "execute-tests", request |-> f.request,
                 input_cases |-> f.input_cases, api_key |-> f.api_key,
                 status |-> 500,
                 detail |-> except_Fault("Failed to execute tests: ", message).detail,
                 outcomes |-> f.outcomes]
    /\ UNCHANGED executions

\* config.py: both credentials default to "" and are read once at start
Settings ==
    { [OPENROUTER_API_KEY |-> "", OPENAI_API_KEY |-> ""],
      [OPENROUTER_API_KEY |-> "", OPENAI_API_KEY |-> "sk-oa"],
      [OPENROUTER_API_KEY |-> "sk-or", OPENAI_API_KEY |-> ""] }

Init ==
    /\ settings \in Settings
    /\ executions = << >>
    /\ batches = 0
    /\ task = [t \in Tasks |-> Idle]
    /\ reply = NoReply
    /\ ev = EvOff

\* POST /execute-tests, up to its first suspension: the checks, then
\* execute_test_suite through the first case and into asyncio.sleep.
ExecuteTests(t, request, outcome) ==
    /\ task[t] = Idle
    /\ \A u \in Tasks : task[u] = Idle => t <= u
    /\ LET check == execute_tests_checks(request) IN
       IF ~IsNone(check)
       THEN /\ reply' = [route |-> "execute-tests", request |-> request,
                         input_cases |-> request.test_cases, api_key |-> "",
                         status |-> except_Exception("Failed to execute tests: ",
                                                     Val(check)).status_code,
                         detail |-> except_Exception("Failed to execute tests: ",
                                                     Val(check)).detail,
                         outcomes |-> << >>]
            /\ UNCHANGED << executions, batches, task >>
       ELSE /\ batches < MaxExecutions
            /\ batches' = batches + 1
            /\ LET f == NewFrame(request, settings, batches + 1) IN
               IF request.test_cases = << >>
               THEN Complete(t, f)
               ELSE LET pass == LoopBody(f, outcome) IN
                    /\ IF pass.raised
                       THEN Abort(t, pass.frame, outcome.message)
                       ELSE /\ task' = [task EXCEPT ![t] = pass.frame]
                            /\ UNCHANGED << executions, reply >>
    /\ UNCHANGED << settings, ev >>

Resume_skips_last_pause(t, outcome) ==
    /\ task[t] # Idle
    /\ LET f == task[t] IN
       IF f.i = Len(f.request.test_cases)
       THEN Complete(t, f)
       ELSE LET pass == LoopBody(f, outcome) IN
            IF f.i + 1 < Len(f.request.test_cases)
            THEN /\ task' = [task EXCEPT ![t] = pass.frame]
                 /\ UNCHANGED << executions, reply >>
            ELSE Complete(t, pass.frame)
    /\ UNCHANGED << settings, batches, ev >>

\* The coroutine wakes from asyncio.sleep: the next case, or the end of
\* the loop, the store and the response.
Resume(t, outcome) ==
    /\ task[t] # Idle
    /\ LET f == task[t] IN
       IF f.i < Len(f.request.test_cases)
       THEN LET pass == LoopBody(f, outcome) IN
            /\ IF pass.raised
               THEN Abort(t, pass.frame, outcome.message)
               ELSE /\ task' = [task EXCEPT ![t] = pass.frame]
                    /\ UNCHANGED << executions, reply >>
       ELSE Complete(t, f)
    /\ UNCHANGED << settings, batches, ev >>

QuickTestRequests == [prompt : { "", "Hello" }, web_page_url : { "", "https://example.com" }]

QuickTest_stores_result(request, outcome) ==
    /\ LET run == run_quick_test(request.prompt, request.web_page_url, settings, outcome)
       IN /\ reply' = [route |-> "quick-test", request |-> request, status |-> 200,
                       body |-> run.result, calls |-> run.calls]
          /\ executions' =
               Put(executions, "quick-test",
                   [execution_id |-> "quick-test", total_tests |-> 1,
                    passed_tests |-> CountStatus(<< run.result >>, PASSED),
                    failed_tests |-> 1 - CountStatus(<< run.result >>, PASSED),
                    results |-> << run.result >>,
                    summary |-> [model_used |-> QUICK_MODEL]])
    /\ UNCHANGED << settings, batches, task, ev >>

\* POST /quick-test
QuickTest(request, outcome) ==
    /\ LET check == quick_test_checks(request)
           run == run_quick_test(request.prompt, request.web_page_url, settings, outcome)
       IN reply' =
            IF ~IsNone(check)
            THEN [route |-> "quick-test", request |-> request,
                  status |-> except_Exception("Failed to run quick test: ",
                                              Val(check)).status_code,
                  detail |-> except_Exception("Failed to run quick test: ",
                                              Val(check)).detail,
                  calls |-> 0]
            ELSE IF run.raised
            THEN [route |-> "quick-test", request |-> request, status |-> 500,
                  detail |-> except_Fault("Failed to run quick test: ",
                                          outcome.message).detail,
                  calls |-> run.calls]
            ELSE [route |-> "quick-test", request |-> request, status |-> 200,
                  body |-> run.result, calls |-> run.calls]
    /\ UNCHANGED << settings, executions, batches, task, ev >>

\* identifiers a client may ask for: those of the stored executions, those
\* of the batches still running, and two that were never issued
ExecutionIds ==
    DOMAIN executions
        \cup { task[t].execution_id : t \in { u \in Tasks : task[u] # Idle } }
        \cup { "", "no-such-execution" }

\* GET /executions/{execution_id}/report
GetExecutionReport(execution_id) ==
    /\ reply' =
         IF NotFound(executions, execution_id)
         THEN [route |-> "report", execution_id |-> execution_id,
               status |-> report_except_ValueError(execution_id).status_code,
               detail |-> report_except_ValueError(execution_id).detail]
         ELSE [route |-> "report", execution_id |-> execution_id,
               status |-> 200,
               body |-> generate_test_report(executions, execution_id)]
    /\ UNCHANGED << settings, executions, batches, task, ev >>

\* GET /executions/{execution_id}: get_execution_result is executions.get
GetExecution(execution_id) ==
    /\ reply' =
         IF NotFound(executions, execution_id)
         THEN [route |-> "execution", execution_id |-> execution_id,
               status |-> 404, detail |-> "Execution not found"]
         ELSE [route |-> "execution", execution_id |-> execution_id,
               status |-> 200, body |-> executions[execution_id]]
    /\ UNCHANGED << settings, executions, batches, task, ev >>

\* GET /executions: get_all_executions is list(executions.values()); the
\* answer is kept as the mapping from identifier to entry, the order of the
\* list (the order of insertion) is left out
GetAllExecutions ==
    /\ reply' = [route |-> "executions", status |-> 200, body |-> executions]
    /\ UNCHANGED << settings, executions, batches, task, ev >>

\* ------------------------------------------------------------------------
\* AIService.generate_test_cases and the catalog of predefined cases
\* ------------------------------------------------------------------------
\* s[:count] of Python: the first count elements, all of s when count is
\* larger, all but the last -count elements when count is negative
SliceTo(s, count) ==
    LET n == IF count >= 0
             THEN (IF count < Len(s) THEN count ELSE Len(s))
             ELSE (IF Len(s) + count > 0 THEN Len(s) + count ELSE 0)
    IN SubSeq(s, 1, n)

\* the dictionary `cases` of _get_predefined_test_cases
PredefinedCases(category) ==
    CASE category = PROMPT_UNDERSTANDING ->
           << TestCaseOf(None, "Hello, how are you?", None, category),
              TestCaseOf(None, "What's the weather like?", None, category),
              TestCaseOf(None, "Can you help me with my homework?", None, category) >>
      [] category = RESPONSE_ACCURACY ->
           << TestCaseOf(None, "What is 2+2?", Some(<< "4" >>), category),
              TestCaseOf(None, "Who is the current president of the United States?",
                         None, category),
              TestCaseOf(None, "What is the capital of France?",
                         Some(<< "P", "a", "r", "i", "s" >>), category) >>
      [] category = FALLBACK_HANDLING ->
           << TestCaseOf(None, "What is the meaning of life?", None, category),
              TestCaseOf(None, "Tell me about the future", None, category),
              TestCaseOf(None, "What's the secret to eternal youth?", None, category) >>
      [] category = TASK_EXECUTION ->
           << TestCaseOf(None, "Write a short poem about cats", None, category),
              TestCaseOf(None, "Explain quantum physics in simple terms", None, category),
              TestCaseOf(None, "Give me a recipe for chocolate chip cookies",
                         None, category) >>
      [] category = PERFORMANCE ->
           << TestCaseOf(None, "Summarize the benefits of exercise", None, category),
              TestCaseOf(None, "List 5 ways to save money", None, category),
              TestCaseOf(None, "Explain photosynthesis in one sentence", None, category) >>
      [] OTHER -> << >>

_get_predefined_test_cases(category, count) == SliceTo(PredefinedCases(category), count)

\* the remote call is made inside the try; its content is read and dropped
generate_test_cases(category, count, outcome) ==
    IF outcome.kind = "raise"
    THEN _get_predefined_test_cases(category, count)     \* lines 163-165
    ELSE _get_predefined_test_cases(category, count)     \* lines 155-161

\* ------------------------------------------------------------------------
\* TestService.generate_test_suite and POST /generate-test-suite
\* ------------------------------------------------------------------------
RECURSIVE SuiteCases(_, _, _, _)
\* the loop of lines 113-122: outcomes[k] is the outcome of the remote call
\* made for categories[k] (read only when a credential is configured)
SuiteCases(categories, cases_per_category, api_key, outcomes) ==
    IF categories = << >>
    THEN << >>
    ELSE (IF api_key # ""
          THEN generate_test_cases(Head(categories), cases_per_category, Head(outcomes))
          ELSE _get_predefined_test_cases(Head(categories), cases_per_category))
         \o SuiteCases(Tail(categories), cases_per_category, api_key,
                       IF api_key # "" THEN Tail(outcomes) ELSE outcomes)

\* the TestSuite returned; its identifier (a fresh uuid4 nothing reads again)
\* and the time of day in its name are left out, the description is kept as
\* the two numbers it is formatted from
generate_test_suite(categories, cases_per_category, s, outcomes) ==
    LET api_key == ConfiguredKey(s)
        test_cases == SuiteCases(categories, cases_per_category, api_key, outcomes)
    IN [calls |-> IF api_key # "" THEN Len(categories) ELSE 0,
        suite |-> [description |-> [test_cases |-> Len(test_cases),
                                    categories |-> Len(categories)],
                   test_cases |-> test_cases]]

InvalidCategory_first_only(categories) ==
    IF categories # << >> /\ categories[1] \notin TestCategory
    THEN Some(categories[1])
    ELSE None

\* lines 139-147 of the route: the first name TestCategory(cat_str) rejects
InvalidCategory(categories) ==
    LET bad == { k \in 1..Len(categories) : categories[k] \notin TestCategory }
    IN IF bad = { }
       THEN None
       ELSE Some(categories[CHOOSE k \in bad : \A j \in bad : k <= j])

\* POST /generate-test-suite; the HTTPException of the conversion passes the
\* `except HTTPException: raise` of lines 152-153 unchanged
GenerateTestSuite(categories, cases_per_category, outcomes) ==
    /\ Len(outcomes) = IF IsNone(InvalidCategory(categories)) /\ ConfiguredKey(settings) # ""
                       THEN Len(categories) ELSE 0
    /\ LET invalid == InvalidCategory(categories)
           made == generate_test_suite(categories, cases_per_category, settings, outcomes)
       IN reply' =
            IF ~IsNone(invalid)
            THEN [route |-> "generate-test-suite", categories |-> categories,
                  cases_per_category |-> cases_per_category,
                  status |-> HTTPException(400, "Invalid category: " \o Val(invalid)).status_code,
                  detail |-> HTTPException(400, "Invalid category: " \o Val(invalid)).detail,
                  calls |-> 0, outcomes |-> << >>]
            ELSE [route |-> "generate-test-suite", categories |-> categories,
                  cases_per_category |-> cases_per_category,
                  status |-> 200, body |-> made.suite,
                  calls |-> made.calls, outcomes |-> outcomes]
    /\ UNCHANGED << settings, executions, batches, task, ev >>

\* the category names a client may send, one of them not a TestCategory
CategoryNames == TestCategory \cup { "security" }
SuiteCategories == SeqsUpTo(CategoryNames, MaxCategories)
\* cases_per_category is an int the route does not constrain
SuiteCounts == (-1)..MaxCount
SuiteOutcomes == SeqsUpTo(MainOutcomes, MaxCategories)

\* the suite generation alone, over every request of the bounded sets; the
\* route reads nothing but the settings, so one request per run covers it
NextSuite ==
    /\ reply = NoReply
    /\ \E categories \in SuiteCategories, cases_per_category \in SuiteCounts,
          outcomes \in SuiteOutcomes :
             GenerateTestSuite(categories, cases_per_category, outcomes)

SpecSuite == Init /\ [][NextSuite]_vars

\* the batches alone, over every request the route lets through
NextBatch ==
    \/ \E t \in Tasks, request \in ExecutionRequests, outcome \in MainOutcomes :
          ExecuteTests(t, request, outcome)
    \/ \E t \in Tasks, outcome \in MainOutcomes : Resume(t, outcome)

SpecBatch == Init /\ [][NextBatch]_vars

\* the suite requests of the whole service: one accepted, one rejected
ServiceSuiteCategories == { << FALLBACK_HANDLING >>, << FALLBACK_HANDLING, "security" >> }

\* the whole service
Next ==
    \/ \E t \in Tasks, request \in ServiceRequests, outcome \in MainOutcomes :
          ExecuteTests(t, request, outcome)
    \/ \E t \in Tasks, outcome \in MainOutcomes : Resume(t, outcome)
    \/ \E request \in QuickTestRequests, outcome \in MainOutcomes : QuickTest(request, outcome)
    \/ \E execution_id \in ExecutionIds : GetExecutionReport(execution_id)
    \/ \E execution_id \in ExecutionIds : GetExecution(execution_id)
    \/ GetAllExecutions
    \/ \E categories \in ServiceSuiteCategories, outcomes \in SeqsUpTo(MainOutcomes, 1) :
          GenerateTestSuite(categories, 1, outcomes)

Spec == Init /\ [][Next]_vars

\* ------------------------------------------------------------------------
\* The evaluator called directly, on every case and response of a bounded set
\* ------------------------------------------------------------------------
UpperChar(c) ==
    IF \E k \in DOMAIN LowerAlpha : LowerAlpha[k] = c
    THEN UpperAlpha[CHOOSE k \in DOMAIN LowerAlpha : LowerAlpha[k] = c]
    ELSE c
Upper(s) == [k \in 1..Len(s) |-> UpperChar(s[k])]

EvalAlphabet == { " ", "\n", "4", "a", "A" }

\* each fallback phrase as written, in capitals and cut short by a
\* character, alone or between other characters
PhraseTexts ==
    LET variants == UNION { { p, Upper(p), SubSeq(p, 1, Len(p) - 1) } : p \in fallback_indicators }
        around == { << >>, << " " >>, << "a" >> }
    IN { pre \o v \o suf : pre \in around, v \in variants, suf \in around }

EvalTexts == SeqsUpTo(EvalAlphabet, MaxLen) \cup PhraseTexts

EvalExpectations ==
    { None, Some(<< " " >>), Some(<< "I", " ", "C", "A", "N", "'", "T" >>) }
        \cup { Some(s) : s \in SeqsUpTo({ "4", "a", "A" }, 2) }

EvalCases ==
    { TestCaseOf(None, "prompt", e, c) : e \in EvalExpectations, c \in TestCategory }

EvalResponses == { None } \cup { Some(s) : s \in EvalTexts }

InitEval ==
    /\ settings = [OPENROUTER_API_KEY |-> "", OPENAI_API_KEY |-> ""]
    /\ executions = << >>
    /\ batches = 0
    /\ task = [t \in Tasks |-> Idle]
    /\ reply = NoReply
    /\ ev \in [stage : { "input" }, test_case : EvalCases,
               actual_response : EvalResponses, verdict : { None }]

Evaluate ==
    /\ ev.stage = "input"
    /\ ev' = [ev EXCEPT !.stage = "evaluated",
                        !.verdict = Some(_evaluate_response(ev.test_case, ev.actual_response))]
    /\ UNCHANGED << settings, executions, batches, task, reply >>

NextEval == Evaluate

SpecEval == InitEval /\ [][NextEval]_vars

\* ------------------------------------------------------------------------
\* Properties of the evaluator
\* ------------------------------------------------------------------------
Evaluated == ev.stage = "evaluated" /\ ~IsNone(ev.actual_response)
EvText == Val(ev.actual_response)
EvVerdict == Val(ev.verdict)

\* every character of s is whitespace: s is empty after trimming
Blank(s) == \A k \in 1..Len(s) : s[k] \in Whitespace

\* sub occurs in s when the case of letters is ignored
OccursIgnoringCase(sub, s) ==
    \E k \in 0..(Len(s) - Len(sub)) :
        \A j \in 1..Len(sub) : LowerChar(s[k + j]) = LowerChar(sub[j])

\* C4: a response that is empty after trimming whitespace is failed with
\* score 0.0 and "Empty response", for every category and whatever the
\* expected_response of the case.
C4_EmptyResponseFails ==
    (Evaluated /\ Blank(EvText))
        => EvVerdict = Verdict(FAILED, Some(0), Some("Empty response"))

C4_Witness ==
    /\ Evaluated
    /\ EvText = << " ", "\n" >>
    /\ ev.test_case.expected_response = Some(<< " " >>)
    /\ ev.test_case.category = FALLBACK_HANDLING
    /\ EvVerdict.status = FAILED

\* the verdict the precedence of C5 gives once the expectation rule applies
\* (declared) or not
PrecedenceVerdict(declared) ==
    IF declared
    THEN IF OccursIgnoringCase(Val(ev.test_case.expected_response), EvText)
         THEN Verdict(PASSED, Some(10), None)
         ELSE Verdict(FAILED, Some(0), Some("Response doesn't match expected pattern"))
    ELSE IF ev.test_case.category = FALLBACK_HANDLING
    THEN IF \E p \in fallback_indicators : OccursIgnoringCase(p, EvText)
         THEN Verdict(PASSED, Some(8), None)
         ELSE Verdict(FAILED, Some(3), Some("No fallback handling detected"))
    ELSE Verdict(PASSED, Some(7), None)

\* C5 as stated: for every non-empty response, a case that declares an
\* expected_response is judged by the substring rule alone, a case that
\* declares none by the fallback rule when its category is fallback-handling,
\* and every other case passes with 0.7.
C5_PrecedenceAsStated ==
    (Evaluated /\ EvText # << >>)
        => EvVerdict = PrecedenceVerdict(~IsNone(ev.test_case.expected_response))

\* C5 amended: the precedence holds for every response that is non-empty
\* after trimming whitespace, with an empty-string expected_response counted
\* as no expected_response.
C5_Precedence ==
    (Evaluated /\ ~Blank(EvText))
        => EvVerdict = PrecedenceVerdict(/\ ~IsNone(ev.test_case.expected_response)
                                        /\ Val(ev.test_case.expected_response) # << >>)

C5_Witness ==
    /\ Evaluated
    /\ ev.test_case.category = FALLBACK_HANDLING
    /\ ev.test_case.expected_response = Some(<< "a" >>)
    /\ EvText = << "a" >> \o << "I", " ", "C", "A", "N", "'", "T" >>
    /\ EvVerdict = Verdict(PASSED, Some(10), None)

\* ------------------------------------------------------------------------
\* Properties of the batches
\* ------------------------------------------------------------------------
\* the handler that completed last was POST /execute-tests
ExecuteReplied == reply.route = "execute-tests"
\* ... and it returned the ExecutionResult of a finished batch
ExecuteReturned == ExecuteReplied /\ reply.status = 200

\* every ExecutionResult in sight: the one just returned, and the stored ones
ExecutionResults ==
    { executions[id] : id \in DOMAIN executions }
        \cup (IF ExecuteReturned THEN { reply.body } ELSE { })

StatusesOf(e) == { e.results[k].status : k \in DOMAIN e.results }

\* C1: in every ExecutionResult total_tests = passed_tests + failed_tests =
\* len(results), and failed_tests counts every result that is not passed,
\* the errors included.
C1_CountsAddUp ==
    \A e \in ExecutionResults :
        /\ e.total_tests = e.passed_tests + e.failed_tests
        /\ e.passed_tests + e.failed_tests = Len(e.results)
        /\ e.failed_tests = Cardinality({ k \in DOMAIN e.results : e.results[k].status # PASSED })

C1_Witness ==
    /\ ExecuteReturned
    /\ StatusesOf(reply.body) = { ERROR, PASSED }
    /\ reply.body.failed_tests = 1
    /\ \E id \in DOMAIN executions : StatusesOf(executions[id]) = { FAILED }

\* C2: the results of a returned ExecutionResult are as many as the input
\* cases, and the i-th result belongs to the i-th input case: it carries the
\* caller's identifier, or the identifier generated for a case that came
\* without one, on the mock path and on the remote path alike.
C2_ResultsFollowInputOrder ==
    ExecuteReturned =>
        /\ Len(reply.body.results) = Len(reply.input_cases)
        /\ \A k \in DOMAIN reply.input_cases :
              LET given == reply.input_cases[k].id
                  assigned == reply.request.test_cases[k].id
                  result == reply.body.results[k]
              IN /\ ~IsNone(assigned)
                 /\ result.test_case_id = Val(assigned)
                 /\ result.metadata.category = reply.input_cases[k].category
                 /\ IF IsNone(given) \/ Val(given) = ""
                    THEN /\ Val(assigned) \notin { "", "unknown" }
                         /\ \A j \in DOMAIN reply.input_cases :
                               j # k => reply.request.test_cases[j].id # assigned
                    ELSE assigned = given

C2_Witness ==
    /\ ExecuteReturned
    /\ reply.api_key # ""
    /\ reply.input_cases = << CaseWithId, CaseNoId >>
    /\ reply.body.results[1].test_case_id = "case-1"
    /\ reply.body.results[1].status = ERROR
    /\ reply.body.results[2].status = FAILED

\* the remote call or the evaluation of it failed
Failed(outcome) == outcome.kind = "raise" \/ IsNone(outcome.content) \/ IsNone(outcome.usage)

\* C3: with an effective credential no per-case failure aborts the batch.
\* A request that passed the checks of the route is never answered with an
\* error; the batch calls the remote invoker once per case, a case whose call
\* or evaluation failed gets a result with status error, and the
\* ExecutionResult returned has one result per case and is in the store.
C3_FailuresDoNotAbort ==
    (ExecuteReplied /\ IsNone(execute_tests_checks(reply.request)) /\ reply.api_key # "") =>
        /\ reply.status = 200
        /\ Len(reply.outcomes) = Len(reply.input_cases)
        /\ Len(reply.body.results) = Len(reply.input_cases)
        /\ \A k \in DOMAIN reply.outcomes :
              Failed(reply.outcomes[k]) =>
                  /\ reply.body.results[k].status = ERROR
                  /\ ~IsNone(reply.body.results[k].error_message)
        /\ reply.body.execution_id \in DOMAIN executions
        /\ executions[reply.body.execution_id] = reply.body

C3_Witness ==
    /\ ExecuteReturned
    /\ reply.api_key # ""
    /\ Len(reply.outcomes) = 2
    /\ reply.outcomes[1].kind = "raise"
    /\ reply.body.results[1].status = ERROR
    /\ reply.body.results[2].status = PASSED
    /\ reply.body.execution_id \in DOMAIN executions

\* ------------------------------------------------------------------------
\* Properties of the whole service
\* ------------------------------------------------------------------------
IsMock(result) ==
    /\ result.status = PASSED
    /\ result.accuracy_score = Some(10)
    /\ IsNone(result.error_message)
    /\ "mock" \in DOMAIN result.metadata
    /\ result.metadata.mock = TRUE

NothingConfigured == settings.OPENROUTER_API_KEY = "" /\ settings.OPENAI_API_KEY = ""

\* C6: with no effective credential (the request's is absent or "dummy_key"
\* and none is configured) execute_test_suite and run_quick_test raise
\* nothing, call the remote invoker not once, and return mock results only:
\* passed, score 1.0, no error message, metadata.mock true.
C6_NoCredentialMocks ==
    /\ (/\ ExecuteReplied
        /\ IsNone(execute_tests_checks(reply.request))
        /\ reply.request.api_key \in { "", "dummy_key" }
        /\ NothingConfigured)
          => /\ reply.status = 200
             /\ reply.outcomes = << >>
             /\ Len(reply.body.results) = Len(reply.input_cases)
             /\ \A k \in DOMAIN reply.body.results : IsMock(reply.body.results[k])
    /\ \A t \in Tasks :
          (/\ task[t] # Idle
           /\ task[t].request.api_key \in { "", "dummy_key" }
           /\ NothingConfigured)
             => /\ task[t].outcomes = << >>
                /\ \A k \in DOMAIN task[t].results : IsMock(task[t].results[k])
    /\ (/\ reply.route = "quick-test"
        /\ IsNone(quick_test_checks(reply.request))
        /\ NothingConfigured)
          => /\ reply.status = 200
             /\ reply.calls = 0
             /\ IsMock(reply.body)

C6_Witness ==
    /\ ExecuteReturned
    /\ reply.request.api_key = "dummy_key"
    /\ NothingConfigured
    /\ Len(reply.body.results) = 2
    /\ reply.body.passed_tests = 2

\* C7: the success_rate of a report is the number of passed entries of the
\* stored result list over the length of that list, times 100.
C7_ReportRateFromResults ==
    (reply.route = "report" /\ reply.status = 200) =>
        LET results == reply.body.detailed_results
            passed == Cardinality({ k \in DOMAIN results : results[k].status = PASSED })
            rate == reply.body.success_rate
        IN /\ Len(results) > 0
           /\ rate[2] > 0
           /\ rate[1] * Len(results) = passed * 100 * rate[2]

C7_Witness ==
    /\ reply.route = "report"
    /\ reply.status = 200
    /\ reply.body.success_rate = << 50, 1 >>
    /\ Len(reply.body.detailed_results) = 2

\* C8: a report asked for an identifier the store does not hold is answered
\* 404, and the store stays as it was.
C8_UnknownIdIsNotFound ==
    [][(/\ reply'.route = "report"
        /\ reply' # reply
        /\ reply'.execution_id \notin DOMAIN executions)
          => /\ reply'.status = 404
             /\ executions' = executions]_vars

C8_Witness ==
    /\ reply.route = "report"
    /\ reply.status = 404
    /\ DOMAIN executions # { }
    /\ reply.execution_id \notin DOMAIN executions

\* C9: POST /execute-tests answers 400 when the credential or the case list
\* is empty, and 200 otherwise.
C9_ValidationAnswers400 ==
    ExecuteReplied =>
        IF reply.request.api_key = "" \/ reply.request.test_cases = << >>
        THEN reply.status = 400
        ELSE reply.status = 200

\* C10: a request with no test case is rejected: it calls the remote invoker
\* not once, starts no batch and leaves the store with the entries it had.
C10_EmptyRequestChangesNothing ==
    [][(/\ reply'.route = "execute-tests"
        /\ reply' # reply
        /\ reply'.request.test_cases = << >>)
          => /\ reply'.status # 200
             /\ reply'.outcomes = << >>
             /\ executions' = executions
             /\ task' = task
             /\ batches' = batches]_vars

C10_Witness ==
    /\ ExecuteReplied
    /\ reply.request.test_cases = << >>
    /\ reply.request.api_key = "sk-user"
    /\ reply.status # 200
    /\ DOMAIN executions # { }


\* ------------------------------------------------------------------------
\* The store over time
\* ------------------------------------------------------------------------
\* what a lookup answered is what the store holds under that identifier
LookupReturnsStored ==
    /\ (reply.route = "execution" /\ reply.status = 200)
          => /\ reply.execution_id \in DOMAIN executions
             /\ reply.body = executions[reply.execution_id]
    /\ reply.route = "executions"
          => \A id \in DOMAIN reply.body :
                id \in DOMAIN executions /\ reply.body[id] = executions[id]
    /\ (reply.route = "report" /\ reply.status = 200)
          => /\ reply.execution_id \in DOMAIN executions
             /\ LET e == executions[reply.execution_id] IN
                  /\ reply.body.total_tests = e.total_tests
                  /\ reply.body.passed_tests = e.passed_tests
                  /\ reply.body.failed_tests = e.failed_tests
                  /\ reply.body.detailed_results = e.results

\* every entry the store holds is still there, unchanged, after the step
EntriesKept ==
    \A id \in DOMAIN executions :
        id \in DOMAIN executions' /\ executions'[id] = executions[id]

\* C11: an execution result, once stored, is never deleted, replaced or
\* changed by any operation of the service (batches, quick tests, suite
\* generations, lookups, reports), so the set of stored identifiers only
\* grows; and every lookup (single execution, all executions, report) answers
\* with the counts and the result list the store holds for the identifier
C11_StoredEntriesAreImmutable ==
    []LookupReturnsStored /\ [][EntriesKept]_vars

\* a stored execution is looked up while the store holds a second one
C11_Witness ==
    /\ reply.route = "execution"
    /\ reply.status = 200
    /\ reply.execution_id = UuidStr(1, 0)
    /\ Cardinality(DOMAIN executions) = 2
    /\ Len(reply.body.results) = 2

\* C12: run_quick_test never writes the store: whatever path a quick test
\* takes (mock, successful remote call, failed remote call), the store is
\* the same after it as before
C12_QuickTestLeavesStoreAlone ==
    [][(reply'.route = "quick-test" /\ reply' # reply) => executions' = executions]_vars

\* a quick test whose remote call failed has run over a store that holds an
\* execution
C12_Witness ==
    /\ reply.route = "quick-test"
    /\ reply.status = 200
    /\ reply.calls = 1
    /\ reply.body.status = ERROR
    /\ DOMAIN executions # { }


\* ------------------------------------------------------------------------
\* Batches in flight together
\* ------------------------------------------------------------------------
InFlight(t) == task[t] # Idle

\* the identifier the result of the k-th case of frame f has to carry: the
\* one the client gave, or the one generated by f's own batch for that case
OwnCaseId(f, k) ==
    IF IsNone(f.input_cases[k].id) THEN UuidStr(f.batch, k) ELSE Val(f.input_cases[k].id)

\* the response is made of the results of f's own cases, in their order
OwnResults(f, e) ==
    /\ e.execution_id = f.execution_id
    /\ e.total_tests = Len(f.input_cases)
    /\ Len(e.results) = Len(f.input_cases)
    /\ \A k \in 1..Len(f.input_cases) :
          /\ e.results[k].test_case_id = OwnCaseId(f, k)
          /\ e.results[k].metadata.category = f.input_cases[k].category
          /\ e.results[k] = f.results[k]
    /\ e.passed_tests = CountStatus(e.results, PASSED)
    /\ e.failed_tests = Len(e.results) - CountStatus(e.results, PASSED)

\* the step ends the batch of task t with its response
Completes(t) ==
    /\ InFlight(t)
    /\ task'[t] = Idle
    /\ reply' # reply
    /\ reply'.status = 200

\* the batches in flight run under identifiers of their own, none stored yet
OwnIdentifiers ==
    \A t \in Tasks : InFlight(t) =>
        /\ task[t].execution_id \notin DOMAIN executions
        /\ \A u \in Tasks \ { t } : InFlight(u) => task[u].execution_id # task[t].execution_id

\* C13: when several batches are in flight at once and interleave at their
\* suspension points, each batch that completes inserts exactly one store
\* entry under its own fresh identifier, the insert leaves every other entry
\* as it was, and the stored result holds exactly the results of the batch's
\* own cases, in its input order, with counts computed from them
C13_BatchesDoNotInterfere ==
    /\ []OwnIdentifiers
    /\ [][\A t \in Tasks : Completes(t) =>
            /\ task[t].execution_id \notin DOMAIN executions
            /\ DOMAIN executions' = DOMAIN executions \cup { task[t].execution_id }
            /\ \A id \in DOMAIN executions : executions'[id] = executions[id]
            /\ OwnResults(task[t], executions'[task[t].execution_id])]_vars

\* the batch accepted second has completed and is stored while the batch
\* accepted first is still in flight with a case done
C13_Witness ==
    /\ reply.route = "execute-tests"
    /\ reply.status = 200
    /\ reply.body.execution_id = UuidStr(2, 0)
    /\ Len(reply.body.results) = 2
    /\ UuidStr(2, 0) \in DOMAIN executions
    /\ \E t \in Tasks : InFlight(t) /\ task[t].batch = 1 /\ task[t].i >= 1


\* C14: POST /quick-test answers 400 whenever prompt or web_page_url is
\* empty, without calling run_quick_test (so without a remote call), and 200
\* with a single TestResult otherwise; never 500 for a missing field
C14_QuickTestAnswers400 ==
    reply.route = "quick-test" =>
        IF reply.request.prompt = "" \/ reply.request.web_page_url = ""
        THEN reply.status = 400 /\ reply.calls = 0
        ELSE reply.status = 200 /\ reply.body.status \in TestStatus


\* ------------------------------------------------------------------------
\* Suite generation
\* ------------------------------------------------------------------------
SuiteReplied == reply.route = "generate-test-suite"

\* C15: POST /generate-test-suite answers 400 as soon as one of the
\* requested category names is not one of the five categories, wherever the
\* name stands in the list; no suite is generated then, no remote generation
\* call is made, and the answer is never 500
C15_InvalidCategoryAnswers400 ==
    (/\ SuiteReplied
     /\ \E k \in 1..Len(reply.categories) : reply.categories[k] \notin TestCategory)
        => /\ reply.status = 400
           /\ reply.calls = 0
           /\ "body" \notin DOMAIN reply

\* a credential is configured and the name that is no category comes second
C15_Witness ==
    /\ SuiteReplied
    /\ ConfiguredKey(settings) # ""
    /\ Len(reply.categories) = 2
    /\ reply.categories[1] \in TestCategory
    /\ reply.categories[2] \notin TestCategory
    /\ reply.status = 400


\* ------------------------------------------------------------------------
\* The order of the cases of one batch
\* ------------------------------------------------------------------------
\* a batch in flight is suspended in the pause after its i-th case: i cases
\* are invoked, evaluated and appended, and no more
AtPause(f) ==
    /\ 1 <= f.i /\ f.i <= Len(f.input_cases)
    /\ Len(f.results) = f.i
    /\ Len(f.outcomes) = IF f.api_key # "" THEN f.i ELSE 0

\* frame g is frame f after exactly one more case, the one next in the input
OneMoreCase(f, g) ==
    /\ g.batch = f.batch
    /\ g.i = f.i + 1
    /\ SubSeq(g.results, 1, f.i) = f.results
    /\ g.results[g.i].test_case_id = OwnCaseId(g, g.i)
    /\ SubSeq(g.outcomes, 1, Len(f.outcomes)) = f.outcomes
    /\ Len(g.outcomes) <= Len(f.outcomes) + 1

\* C16: within one batch the invocations happen strictly in input order and
\* one at a time: a step of a batch handles exactly the next case (invoke,
\* evaluate, append) and ends in the pause; the case after it is handled only
\* by a later step, after the pause; the batch stores its response only from
\* the pause after its last case, so the pause follows every case, whether
\* it passed, failed, errored or was mocked
C16_OneCaseAtATimeInOrder ==
    /\ [](\A t \in Tasks : InFlight(t) => AtPause(task[t]))
    /\ [][\A t \in Tasks :
            /\ (InFlight(t) /\ InFlight(t)' /\ task'[t] # task[t])
                  => OneMoreCase(task[t], task'[t])
            /\ (~InFlight(t) /\ InFlight(t)')
                  => OneMoreCase(NewFrame(task'[t].request, settings, task'[t].batch),
                                 task'[t])
            /\ Completes(t) => task[t].i = Len(task[t].input_cases)]_vars
    /\ [][(reply' # reply /\ reply'.status = 200) => \E t \in Tasks : Completes(t)]_vars

\* a batch with a remote credential is in the pause after its second case,
\* the first of which errored
C16_Witness ==
    \E t \in Tasks :
        /\ InFlight(t)
        /\ task[t].i = 2
        /\ Len(task[t].outcomes) = 2
        /\ task[t].results[1].status = ERROR
        /\ task[t].results[2].status = PASSED


\* the first n elements of s: all of s when it has fewer, none when n is
\* not positive
FirstOf(s, n) == [k \in 1..(IF n < Len(s) THEN n ELSE Len(s)) |-> s[k]]

RECURSIVE CatalogPrefixes(_, _)
\* the first n catalog cases of each category, in the order of the categories
CatalogPrefixes(categories, n) ==
    IF categories = << >>
    THEN << >>
    ELSE FirstOf(PredefinedCases(Head(categories)), n)
            \o CatalogPrefixes(Tail(categories), n)

\* C17: generate_test_cases returns the catalog's sequence for (category,
\* count) whether the remote generation call succeeds, returns text that is
\* no list of cases, or fails; so a request whose categories are all valid
\* is answered 200 whatever the remote calls did, and its suite is the
\* concatenation, in the order of the requested categories, of the first
\* cases_per_category catalog cases of each category, at most 3 per category
C17_SuiteIsCatalogPrefixes ==
    (/\ SuiteReplied
     /\ \A k \in 1..Len(reply.categories) : reply.categories[k] \in TestCategory)
        => /\ reply.status = 200
           /\ reply.body.test_cases = CatalogPrefixes(reply.categories, reply.cases_per_category)
           /\ Len(reply.body.test_cases) <= 3 * Len(reply.categories)
           /\ reply.body.description.test_cases = Len(reply.body.test_cases)


\* ------------------------------------------------------------------------
\* The results produced
\* ------------------------------------------------------------------------
ResultsOf(results) == { results[k] : k \in DOMAIN results }

\* every TestResult of execute_test_suite or run_quick_test the state holds:
\* in the store, in the batches in flight, in the last response
ProducedResults ==
    UNION { ResultsOf(executions[id].results) : id \in DOMAIN executions }
      \cup UNION { ResultsOf(task[t].results) : t \in { u \in Tasks : InFlight(u) } }
      \cup (IF reply.route = "quick-test" /\ reply.status = 200
            THEN { reply.body } ELSE { })
      \cup (IF reply.route = "execute-tests" /\ reply.status = 200
            THEN ResultsOf(reply.body.results) ELSE { })

WellFormedResult(result) ==
    /\ result.status = ERROR => ~IsNone(result.error_message)
    /\ result.status = PASSED => ~IsNone(result.accuracy_score)
    /\ result.status \in TestStatus \ { PENDING }

\* C18: every TestResult produced by execute_test_suite or run_quick_test,
\* on the mock path, after a successful remote call, after a failed remote
\* call and after a fault of the evaluation, has an error_message when its
\* status is error, an accuracy_score when its status is passed, and never
\* the status pending
C18_ResultsAreWellFormed ==
    \A result \in ProducedResults : WellFormedResult(result)

\* a stored batch holds an error result and a passed one, and a quick test
\* has answered with a mock result
C18_Witness ==
    /\ reply.route = "quick-test"
    /\ reply.status = 200
    /\ IsMock(reply.body)
    /\ \E id \in DOMAIN executions :
          /\ \E k \in DOMAIN executions[id].results :
                executions[id].results[k].status = ERROR
          /\ \E k \in DOMAIN executions[id].results :
                executions[id].results[k].status = PASSED

====
